---- MODULE Spec2Model ----
(***************************************************************************)
(* Model of auto_assign_textures.py: one invocation of                     *)
(* add_texture_to_selected_material against a host editor whose asset      *)
(* registry, content directory, selection and call outcomes are chosen     *)
(* nondeterministically.  Python strings are TLA+ strings; the string      *)
(* methods the script uses are operators computed character by character. *)
(***************************************************************************)
EXTENDS Integers, Sequences, FiniteSets, TLC

None == "<None>"

(***************************************************************************)
(* Bounds of the explored environment.                                     *)
(***************************************************************************)
MaxSel == 2
MaxReg == 2

(***************************************************************************)
(* Python string methods.                                                  *)
(***************************************************************************)
\* str.lower() and str.upper() on one character (ASCII letters)
LowerChar(c) ==
    CASE c = "A" -> "a" [] c = "B" -> "b" [] c = "C" -> "c" [] c = "D" -> "d"
      [] c = "E" -> "e" [] c = "F" -> "f" [] c = "G" -> "g" [] c = "H" -> "h"
      [] c = "I" -> "i" [] c = "J" -> "j" [] c = "K" -> "k" [] c = "L" -> "l"
      [] c = "M" -> "m" [] c = "N" -> "n" [] c = "O" -> "o" [] c = "P" -> "p"
      [] c = "Q" -> "q" [] c = "R" -> "r" [] c = "S" -> "s" [] c = "T" -> "t"
      [] c = "U" -> "u" [] c = "V" -> "v" [] c = "W" -> "w" [] c = "X" -> "x"
      [] c = "Y" -> "y" [] c = "Z" -> "z"
      [] OTHER -> c

UpperChar(c) ==
    CASE c = "a" -> "A" [] c = "b" -> "B" [] c = "c" -> "C" [] c = "d" -> "D"
      [] c = "e" -> "E" [] c = "f" -> "F" [] c = "g" -> "G" [] c = "h" -> "H"
      [] c = "i" -> "I" [] c = "j" -> "J" [] c = "k" -> "K" [] c = "l" -> "L"
      [] c = "m" -> "M" [] c = "n" -> "N" [] c = "o" -> "O" [] c = "p" -> "P"
      [] c = "q" -> "Q" [] c = "r" -> "R" [] c = "s" -> "S" [] c = "t" -> "T"
      [] c = "u" -> "U" [] c = "v" -> "V" [] c = "w" -> "W" [] c = "x" -> "X"
      [] c = "y" -> "Y" [] c = "z" -> "Z"
      [] OTHER -> c

Char(s, n) == SubSeq(s, n, n)

RECURSIVE Lower(_)
Lower(s) == IF s = "" THEN "" ELSE LowerChar(Head(s)) \o Lower(Tail(s))

RECURSIVE Upper(_)
Upper(s) == IF s = "" THEN "" ELSE UpperChar(Head(s)) \o Upper(Tail(s))

StartsWith(s, p) == Len(p) <= Len(s) /\ SubSeq(s, 1, Len(p)) = p

EndsWith(s, p) == Len(p) <= Len(s) /\ SubSeq(s, Len(s) - Len(p) + 1, Len(s)) = p

\* s.find(sub) from position n on, 0 if absent
RECURSIVE FindFrom(_, _, _)
FindFrom(s, sub, n) ==
    IF n + Len(sub) - 1 > Len(s) THEN 0
    ELSE IF SubSeq(s, n, n + Len(sub) - 1) = sub THEN n
    ELSE FindFrom(s, sub, n + 1)

\* sub in s
Contains(s, sub) == FindFrom(s, sub, 1) # 0

\* s.split(sub)[0], for s that contains sub
SplitFirst(s, sub) == SubSeq(s, 1, FindFrom(s, sub, 1) - 1)

\* s.replace(a, b) for a single character a
RECURSIVE Replace(_, _, _)
Replace(s, a, b) ==
    IF s = "" THEN ""
    ELSE (IF Head(s) = a THEN b ELSE Head(s)) \o Replace(Tail(s), a, b)

\* index of the last character of s[1..n] that is in cs, 0 if none
RECURSIVE LastIndexIn(_, _, _)
LastIndexIn(s, cs, n) ==
    IF n = 0 THEN 0
    ELSE IF Char(s, n) \in cs THEN n
    ELSE LastIndexIn(s, cs, n - 1)

LastIndexOf(s, cs) == LastIndexIn(s, cs, Len(s))

\* os.path.splitext(p)[0]
SplitExt(p) ==
    LET sepIndex == LastIndexOf(p, {"/", "\\"})
        dotIndex == LastIndexOf(p, {"."})
    IN IF /\ dotIndex > sepIndex
          /\ \E n \in (sepIndex + 1)..(dotIndex - 1) : Char(p, n) # "."
       THEN SubSeq(p, 1, dotIndex - 1)
       ELSE p

\* s.endswith(tuple)
EndsWithAny(s, ps) == \E p \in ps : EndsWith(s, p)

\* os.path.join(root, file), root relative to the content directory
PathJoin(sep, root, file) == IF root = "" THEN file ELSE root \o sep \o file

(***************************************************************************)
(* The host environment: assets that can be selected, Texture2D assets of  *)
(* the registry, and content directories (a tree and the path separator    *)
(* of the platform).                                                       *)
(***************************************************************************)
AssetPool ==
    { [cls |-> "Material",  name |-> "W_SG"],
      [cls |-> "Material",  name |-> "X_sg"],
      [cls |-> "Material",  name |-> "X_SG_F"],
      [cls |-> "Texture2D", name |-> "W_SG_Normal"] }

TexturePool ==
    { [asset_name |-> "W_SG_BaseColor",        package_path |-> "/Game/T"],
      [asset_name |-> "w_sg_basecolor_2k",     package_path |-> "/Game/U"],
      [asset_name |-> "W_SG_Normal",           package_path |-> "/Game/T"],
      [asset_name |-> "W_SG_AmbientOcclusion", package_path |-> "/Game/T"] }

EmptyDir == [name |-> "", dirs |-> <<>>, files |-> <<>>]

FsEmpty == [sep |-> "/", tree |-> EmptyDir]

FsWindows ==
    [sep  |-> "\\",
     tree |-> [name  |-> "",
               dirs  |-> << [name |-> "Games", dirs |-> <<>>,
                             files |-> <<"W_SG_Normal.uasset">>],
                            [name |-> "Tex", dirs |-> <<>>,
                             files |-> <<"readme.txt",
                                         "W_SG_BaseColor_2k.png.uasset",
                                         "W_SG_BaseColor.uasset">>] >>,
               files |-> <<"w_sg_orm.tga">>]]

FsPosix ==
    [sep  |-> "/",
     tree |-> [name  |-> "",
               dirs  |-> << [name |-> "Tex", dirs |-> <<>>,
                             files |-> <<"W_SG_OcclusionRoughnessMetallic.uasset",
                                         "W_SG_Normal.blend",
                                         "X_SG_Normal.uasset">>] >>,
               files |-> <<>>]]

FsPool == {FsEmpty, FsWindows, FsPosix}

\* sequences of at most n distinct elements of S
DistinctSeqs(S, n) ==
    UNION { { q \in [1..k -> S] : \A a, b \in 1..k : a # b => q[a] # q[b] } : k \in 0..n }

(***************************************************************************)
(* find_texture_by_type                                                    *)
(***************************************************************************)
TextureExts == {".uasset", ".png", ".tga", ".jpg", ".jpeg"}
ImageExts == {".png", ".tga", ".jpg", ".jpeg"}

\* lines 6-7
StripSG(shader_name) ==
    IF EndsWith(Upper(shader_name), "_SG")
    THEN SubSeq(shader_name, 1, Len(shader_name) - 3)
    ELSE shader_name

\* the f-string of lines 24 and 42
MatchPrefix(shader_name, texture_type) == Lower(shader_name) \o "_sg_" \o Lower(texture_type)

\* lines 20-27: the loop over the registry's Texture2D assets
RECURSIVE RegistrySearch(_, _)
RegistrySearch(all_textures, prefix) ==
    IF all_textures = <<>> THEN None
    ELSE LET texture_data == Head(all_textures)
         IN IF StartsWith(Lower(texture_data.asset_name), prefix)
            THEN texture_data.package_path \o "/" \o texture_data.asset_name
            ELSE RegistrySearch(Tail(all_textures), prefix)

\* lines 35-36
RECURSIVE RemoveGames(_)
RemoveGames(dirs) ==
    IF dirs = <<>> THEN <<>>
    ELSE IF Head(dirs).name = "Games" THEN Tail(dirs)
    ELSE <<Head(dirs)>> \o RemoveGames(Tail(dirs))

\* lines 38-46: the first matching file of one directory, as a list of 0 or 1 paths
RECURSIVE FileSearch(_, _, _, _)
FileSearch(sep, root, files, prefix) ==
    IF files = <<>> THEN <<>>
    ELSE LET file == Head(files)
         IN IF /\ EndsWithAny(Lower(file), TextureExts)
               /\ StartsWith(Lower(SplitExt(file)), prefix)
            THEN << PathJoin(sep, root, file) >>
            ELSE FileSearch(sep, root, Tail(files), prefix)

\* lines 34-46: os.walk, top-down, with the pruned dirs list
RECURSIVE Walk(_, _, _, _)
RECURSIVE WalkDirs(_, _, _, _)
Walk(sep, root, dir, prefix) ==
    FileSearch(sep, root, dir.files, prefix) \o WalkDirs(sep, root, RemoveGames(dir.dirs), prefix)
WalkDirs(sep, root, dirs, prefix) ==
    IF dirs = <<>> THEN <<>>
    ELSE Walk(sep, PathJoin(sep, root, Head(dirs).name), Head(dirs), prefix)
         \o WalkDirs(sep, root, Tail(dirs), prefix)

\* lines 49-54
ToAssetPath(rel_path) ==
    LET base_name  == SplitExt(rel_path)
        base_name2 == IF EndsWithAny(Lower(base_name), ImageExts)
                      THEN SplitExt(base_name) ELSE base_name
    IN "/Game/" \o Replace(base_name2, "\\", "/")

\* find_texture_by_type with the two searches swapped: the content directory
\* is walked first and the registry is used only when the walk finds nothing
find_texture_by_type_walk_first(all_textures, content, shader_name0, texture_type) ==
    LET shader_name == StripSG(shader_name0)
        prefix      == MatchPrefix(shader_name, texture_type)
        full_path   == RegistrySearch(all_textures, prefix)
        matching_textures == Walk(content.sep, "", content.tree, prefix)
    IN IF matching_textures # <<>>
       THEN [shader |-> shader_name, type |-> texture_type, walked |-> TRUE,
             warned |-> FALSE, result |-> ToAssetPath(matching_textures[1])]
       ELSE IF full_path # None
       THEN [shader |-> shader_name, type |-> texture_type, walked |-> TRUE,
             warned |-> FALSE, result |-> full_path]
       ELSE [shader |-> shader_name, type |-> texture_type, walked |-> TRUE,
             warned |-> TRUE, result |-> None]

\* the whole function: the prefix it matched with, whether the content
\* directory was walked, whether the final warning was logged, and the result
find_texture_by_type(all_textures, content, shader_name0, texture_type) ==
    LET shader_name == StripSG(shader_name0)
        prefix      == MatchPrefix(shader_name, texture_type)
        full_path   == RegistrySearch(all_textures, prefix)
        matching_textures == Walk(content.sep, "", content.tree, prefix)
    IN IF full_path # None
       THEN [shader |-> shader_name, type |-> texture_type, walked |-> FALSE,
             warned |-> FALSE, result |-> full_path]
       ELSE IF matching_textures # <<>>
       THEN [shader |-> shader_name, type |-> texture_type, walked |-> TRUE,
             warned |-> FALSE, result |-> ToAssetPath(matching_textures[1])]
       ELSE [shader |-> shader_name, type |-> texture_type, walked |-> TRUE,
             warned |-> TRUE, result |-> None]

(***************************************************************************)
(* add_texture_to_selected_material: state                                 *)
(***************************************************************************)
VARIABLES
    selected_assets,     \* what get_selected_assets returns: None or a sequence of assets
    registry,            \* the Texture2D assets of the asset registry, in registry order
    content,             \* the project content directory
    pc,                  \* position in the procedure
    i,                   \* index of the asset the for loop is at
    ch,                  \* channel being processed: 1 BaseColor, 2 Normal, 3 ORM
    tt,                  \* index of the texture type find_orm_texture is trying
    k,                   \* index of the next connection of the channel
    materials_found,
    processed_materials, \* indices into selected_assets, in append order
    shader_name,
    texture_path,        \* texture_path / normal_path / orm_path
    texture_asset,       \* texture_asset / normal_asset / orm_asset
    mat,                 \* per selected asset: its expression nodes, the path found per channel
                         \* and the texture type it was found under, its recompile count
    srgbOff,             \* texture assets whose srgb property was set to False
    load,                \* activation of load_texture_asset: host calls made, log, result
    lastFind,            \* the last completed find_texture_by_type call
    events,              \* the host-visible steps so far, as <<op, asset index, channel>>
    log,                 \* errors and warnings logged by the entry point and by find_texture_by_type
    outcome,             \* "running", "returned" or "raised"
    result,              \* the returned value
    raisedBy             \* the host call whose exception left the entry point

vars == << selected_assets, registry, content, pc, i, ch, tt, k, materials_found,
           processed_materials, shader_name, texture_path, texture_asset, mat,
           srgbOff, load, lastFind, events, log, outcome, result, raisedBy >>

env == << selected_assets, registry, content >>

Channels == << "BaseColor", "Normal", "ORM" >>

\* lines 63, 67, 71-77
TypesOf == << << "BaseColor" >>,
              << "Normal" >>,
              << "OcclusionRoughnessMetallic", "ORM", "AmbientOcclusion" >> >>

\* lines 163-164, 181, 198-201
Wiring == << << << "RGB", "MP_BASE_COLOR" >> >>,
             << << "RGB", "MP_NORMAL" >> >>,
             << << "R", "MP_AMBIENT_OCCLUSION" >>,
                << "G", "MP_ROUGHNESS" >>,
                << "B", "MP_METALLIC" >> >> >>

NoLoad == [active |-> FALSE, calls |-> 0, lookups |-> 0, raised1 |-> FALSE,
           log |-> {}, result |-> None]

NoFind == [shader |-> None, type |-> None, walked |-> FALSE, warned |-> FALSE,
           result |-> None, material |-> None]

NewMat == [nodes |-> <<>>, found |-> [c \in 1..3 |-> "pending"],
           ftype |-> [c \in 1..3 |-> None], recompiled |-> 0]

\* a Python value that is None or a list
PyNone == [isNone |-> TRUE, items |-> <<>>]
PyList(q) == [isNone |-> FALSE, items |-> q]

Selections == {PyNone} \cup { PyList(q) : q \in DistinctSeqs(AssetPool, MaxSel) }

Init ==
    /\ selected_assets \in Selections
    /\ registry \in DistinctSeqs(TexturePool, MaxReg)
    /\ content \in FsPool
    /\ pc = "start"
    /\ i = 0
    /\ ch = 0
    /\ tt = 0
    /\ k = 0
    /\ materials_found = FALSE
    /\ processed_materials = <<>>
    /\ shader_name = None
    /\ texture_path = None
    /\ texture_asset = None
    /\ mat = [m \in 1..Len(selected_assets.items) |-> NewMat]
    /\ srgbOff = {}
    /\ load = NoLoad
    /\ lastFind = NoFind
    /\ events = <<>>
    /\ log = {}
    /\ outcome = "running"
    /\ result = PyNone
    /\ raisedBy = None

\* an exception of a host call that no handler of the script catches
Raise(call) ==
    /\ pc' = "done"
    /\ outcome' = "raised"
    /\ raisedBy' = call
    /\ UNCHANGED result

Return(value) ==
    /\ pc' = "done"
    /\ outcome' = "returned"
    /\ result' = value
    /\ UNCHANGED raisedBy

Running(next) ==
    /\ pc' = next
    /\ UNCHANGED << outcome, result, raisedBy >>

LogEntry(level, tag) == << level, tag, i, ch, tt >>

\* the end of a channel's if/else: on to the next channel, or to line 209
GoNextChannel ==
    IF ch < 3
    THEN /\ Running("find")
         /\ ch' = ch + 1
         /\ tt' = 1
    ELSE /\ Running("recompile")
         /\ UNCHANGED << ch, tt >>

\* lines 134-139
GetSelectedAssets ==
    /\ pc = "start"
    /\ IF selected_assets.isNone \/ Len(selected_assets.items) = 0
       THEN /\ log' = log \cup { << "error", "no_selection", 0, 0, 0 >> }
            /\ Return(PyNone)
            /\ UNCHANGED i
       ELSE /\ Running("loop")
            /\ i' = 1
            /\ UNCHANGED log
    /\ UNCHANGED << env, ch, tt, k, materials_found, processed_materials, shader_name,
                    texture_path, texture_asset, mat, srgbOff, load, lastFind, events >>

\* line 150
ShaderNameOf(material_name) ==
    IF Contains(material_name, "_SG") THEN SplitFirst(material_name, "_SG") ELSE material_name

\* lines 142-143, isinstance false: the loop moves on
SkipAsset ==
    /\ pc = "loop"
    /\ i <= Len(selected_assets.items)
    /\ selected_assets.items[i].cls # "Material"
    /\ i' = i + 1
    /\ UNCHANGED << env, pc, ch, tt, k, materials_found, processed_materials, shader_name,
                    texture_path, texture_asset, mat, srgbOff, load, lastFind, events,
                    log, outcome, result, raisedBy >>

\* lines 143-152
BeginMaterial ==
    /\ pc = "loop"
    /\ i <= Len(selected_assets.items)
    /\ selected_assets.items[i].cls = "Material"
    /\ materials_found' = TRUE
    /\ shader_name' = ShaderNameOf(selected_assets.items[i].name)
    /\ Running("find")
    /\ ch' = 1
    /\ tt' = 1
    /\ UNCHANGED << env, i, k, processed_materials, texture_path, texture_asset, mat,
                    srgbOff, load, lastFind, events, log >>

\* Finish without the materials_found test of line 213
Finish_no_materials_test ==
    /\ pc = "loop"
    /\ i > Len(selected_assets.items)
    /\ Return(PyList(processed_materials))
    /\ UNCHANGED << env, i, ch, tt, k, materials_found, processed_materials, shader_name,
                    texture_path, texture_asset, mat, srgbOff, load, lastFind, events, log >>

\* lines 213-218
Finish ==
    /\ pc = "loop"
    /\ i > Len(selected_assets.items)
    /\ IF ~materials_found
       THEN /\ log' = log \cup { << "error", "no_materials", 0, 0, 0 >> }
            /\ Return(PyNone)
       ELSE /\ Return(PyList(processed_materials))
            /\ UNCHANGED log
    /\ UNCHANGED << env, i, ch, tt, k, materials_found, processed_materials, shader_name,
                    texture_path, texture_asset, mat, srgbOff, load, lastFind, events >>

\* lines 154-155, 171-172, 188-189: one find_texture_by_type call of the channel
\* (lines 5-59), and for the ORM channel the chain of find_orm_texture
FindTexture ==
    /\ pc = "find"
    /\ \E raises \in BOOLEAN :
        IF raises
        THEN /\ Raise("get_assets")
             /\ UNCHANGED << ch, tt, texture_path, mat, lastFind, events, log >>
        ELSE LET r == find_texture_by_type(registry, content, shader_name, TypesOf[ch][tt])
                 logged == IF r.warned THEN { LogEntry("warning", "find_none") } ELSE {}
             IN /\ lastFind' = [ material |-> selected_assets.items[i].name,
                                  shader |-> r.shader, type |-> r.type, walked |-> r.walked,
                                  warned |-> r.warned, result |-> r.result ]
                /\ events' = Append(events, << "find", i, ch >>)
                /\ IF r.result # None
                   THEN /\ texture_path' = r.result
                        /\ mat' = [ mat EXCEPT ![i].found[ch] = r.result,
                                                ![i].ftype[ch] = TypesOf[ch][tt] ]
                        /\ log' = log \cup logged
                        /\ Running("create")
                        /\ UNCHANGED << ch, tt >>
                   ELSE IF tt < Len(TypesOf[ch])
                   THEN /\ tt' = tt + 1
                        /\ log' = log \cup logged
                        /\ Running("find")
                        /\ UNCHANGED << ch, texture_path, mat >>
                   ELSE /\ texture_path' = None
                        /\ mat' = [ mat EXCEPT ![i].found[ch] = None ]
                        /\ log' = log \cup logged
                                      \cup { << "warning", "not_found", i, ch, 0 >> }
                        /\ GoNextChannel
    /\ UNCHANGED << env, i, k, materials_found, processed_materials, shader_name,
                    texture_asset, srgbOff, load >>

\* the expression node the current channel created: the last one of the material
CurNode == Len(mat[i].nodes)

\* lines 156-159, 173-176, 190-193
CreateExpression ==
    /\ pc = "create"
    /\ \E raises \in BOOLEAN :
        IF raises
        THEN /\ Raise("create_material_expression")
             /\ UNCHANGED << mat, events >>
        ELSE /\ mat' = [ mat EXCEPT ![i].nodes =
                           Append(@, [ch |-> ch, texture |-> None, sampler |-> "SAMPLERTYPE_COLOR",
                                      x |-> -400, y |-> 200 * (ch - 1), conns |-> {}]) ]
             /\ events' = Append(events, << "create", i, ch >>)
             /\ Running(IF ch = 2 THEN "sampler" ELSE "load")
    /\ UNCHANGED << env, i, ch, tt, k, materials_found, processed_materials, shader_name,
                    texture_path, texture_asset, srgbOff, load, lastFind, log >>

\* line 177
SetSamplerType ==
    /\ pc = "sampler"
    /\ \E raises \in BOOLEAN :
        IF raises
        THEN /\ Raise("set_editor_property")
             /\ UNCHANGED mat
        ELSE /\ mat' = [ mat EXCEPT ![i].nodes[CurNode].sampler = "SAMPLERTYPE_NORMAL" ]
             /\ Running("load")
    /\ UNCHANGED << env, i, ch, tt, k, materials_found, processed_materials, shader_name,
                    texture_path, texture_asset, srgbOff, load, lastFind, events, log >>

LoadOutcomes == { "asset", "none", "raise" }

\* lines 160, 178, 194 calling lines 82-94: the first unreal.load_asset
LoadAsset ==
    /\ pc = "load"
    /\ events' = Append(events, << "load", i, ch >>)
    /\ IF texture_path = None \/ texture_path = ""
       THEN /\ load' = [ NoLoad EXCEPT !.active = TRUE ]
            /\ pc' = "loaded"
       ELSE \E o \in LoadOutcomes :
            LET l == [ NoLoad EXCEPT !.active = TRUE, !.calls = 1 ]
            IN CASE o = "asset" ->
                      /\ load' = [ l EXCEPT !.result = texture_path ]
                      /\ pc' = "loaded"
                 [] o = "none" ->
                      /\ load' = [ l EXCEPT !.log = { << "warning", "load_failed" >> } ]
                      /\ pc' = "loaded"
                 [] o = "raise" ->
                      /\ load' = [ l EXCEPT !.log = { << "error", "load_error" >> },
                                            !.raised1 = TRUE ]
                      /\ pc' = "alt_lookup"
    /\ UNCHANGED << env, i, ch, tt, k, materials_found, processed_materials, shader_name,
                    texture_path, texture_asset, mat, srgbOff, lastFind, log,
                    outcome, result, raisedBy >>

\* lines 96-101, 108-111: the registry lookup of the fallback
AltLookup ==
    /\ pc = "alt_lookup"
    /\ \E o \in { "data", "none", "raise" } :
        CASE o = "data" ->
               /\ load' = [ load EXCEPT !.lookups = @ + 1 ]
               /\ pc' = "alt_load"
          [] o = "none" ->
               /\ load' = [ load EXCEPT !.lookups = @ + 1,
                                        !.log = @ \cup { << "warning", "alt_no_data" >> } ]
               /\ pc' = "loaded"
          [] o = "raise" ->
               /\ load' = [ load EXCEPT !.lookups = @ + 1,
                                        !.log = @ \cup { << "error", "alt_error" >> } ]
               /\ pc' = "loaded"
    /\ UNCHANGED << env, i, ch, tt, k, materials_found, processed_materials, shader_name,
                    texture_path, texture_asset, mat, srgbOff, lastFind, events, log,
                    outcome, result, raisedBy >>

\* AltLoad without the inner try/except: an exception of the second load_asset
\* leaves load_texture_asset and the entry point
AltLoad_uncaught ==
    /\ pc = "alt_load"
    /\ \E o \in LoadOutcomes :
        CASE o = "asset" ->
               /\ load' = [ load EXCEPT !.calls = @ + 1, !.result = texture_path ]
               /\ Running("loaded")
          [] o = "none" ->
               /\ load' = [ load EXCEPT !.calls = @ + 1,
                                        !.log = @ \cup { << "warning", "alt_failed" >> } ]
               /\ Running("loaded")
          [] o = "raise" ->
               /\ load' = [ load EXCEPT !.calls = @ + 1 ]
               /\ Raise("load_asset")
    /\ UNCHANGED << env, i, ch, tt, k, materials_found, processed_materials, shader_name,
                    texture_path, texture_asset, mat, srgbOff, lastFind, events, log >>

\* lines 102-107, 110-111: the load by package name of the fallback
AltLoad ==
    /\ pc = "alt_load"
    /\ \E o \in LoadOutcomes :
        CASE o = "asset" ->
               load' = [ load EXCEPT !.calls = @ + 1, !.result = texture_path ]
          [] o = "none" ->
               load' = [ load EXCEPT !.calls = @ + 1,
                                     !.log = @ \cup { << "warning", "alt_failed" >> } ]
          [] o = "raise" ->
               load' = [ load EXCEPT !.calls = @ + 1,
                                     !.log = @ \cup { << "error", "alt_error" >> } ]
    /\ pc' = "loaded"
    /\ UNCHANGED << env, i, ch, tt, k, materials_found, processed_materials, shader_name,
                    texture_path, texture_asset, mat, srgbOff, lastFind, events, log,
                    outcome, result, raisedBy >>

\* lines 160-161, 166-167 (and 178-179, 183-184, 194-195, 203-204): the value
\* load_texture_asset returned is assigned and tested
CheckLoaded ==
    /\ pc = "loaded"
    /\ texture_asset' = load.result
    /\ load' = NoLoad
    /\ IF load.result # None
       THEN /\ Running(IF ch = 3 THEN "configure" ELSE "set_texture")
            /\ UNCHANGED << ch, tt, log >>
       ELSE /\ log' = log \cup { << "warning", "add_failed", i, ch, 0 >> }
            /\ GoNextChannel
    /\ UNCHANGED << env, i, k, materials_found, processed_materials, shader_name,
                    texture_path, mat, srgbOff, lastFind, events >>

\* line 196 calling lines 116-130 with is_orm=True
ConfigureTextureSettings ==
    /\ pc = "configure"
    /\ \E raises \in BOOLEAN :
        IF raises
        THEN /\ log' = log \cup { << "error", "configure_error", i, ch, 0 >> }
             /\ UNCHANGED srgbOff
        ELSE /\ srgbOff' = srgbOff \cup { texture_asset }
             /\ UNCHANGED log
    /\ Running("set_texture")
    /\ UNCHANGED << env, i, ch, tt, k, materials_found, processed_materials, shader_name,
                    texture_path, texture_asset, mat, load, lastFind, events >>

\* lines 162, 180, 197
SetTexture ==
    /\ pc = "set_texture"
    /\ \E raises \in BOOLEAN :
        IF raises
        THEN /\ Raise("set_editor_property")
             /\ UNCHANGED << mat, k, events >>
        ELSE /\ mat' = [ mat EXCEPT ![i].nodes[CurNode].texture = texture_asset ]
             /\ events' = Append(events, << "set_texture", i, ch >>)
             /\ k' = 1
             /\ Running("connect")
    /\ UNCHANGED << env, i, ch, tt, materials_found, processed_materials, shader_name,
                    texture_path, texture_asset, srgbOff, load, lastFind, log >>

\* lines 163-164, 181, 198-201: one connect_material_property call
ConnectMaterialProperty ==
    /\ pc = "connect"
    /\ \E raises \in BOOLEAN :
        IF raises
        THEN /\ Raise("connect_material_property")
             /\ UNCHANGED << mat, k, events, ch, tt >>
        ELSE /\ mat' = [ mat EXCEPT ![i].nodes[CurNode].conns = @ \cup { Wiring[ch][k] } ]
             /\ events' = Append(events, << "connect", i, ch >>)
             /\ IF k < Len(Wiring[ch])
                THEN /\ k' = k + 1
                     /\ Running("connect")
                     /\ UNCHANGED << ch, tt >>
                ELSE /\ k' = 0
                     /\ GoNextChannel
    /\ UNCHANGED << env, i, materials_found, processed_materials, shader_name,
                    texture_path, texture_asset, srgbOff, load, lastFind, log >>

\* RecompileMaterial that recompiles only a material that got an expression node
RecompileMaterial_only_if_nodes ==
    /\ pc = "recompile"
    /\ \E raises \in BOOLEAN :
        IF raises /\ mat[i].nodes # <<>>
        THEN /\ Raise("recompile_material")
             /\ UNCHANGED << mat, events, processed_materials, i >>
        ELSE /\ IF mat[i].nodes # <<>>
                THEN /\ mat' = [ mat EXCEPT ![i].recompiled = @ + 1 ]
                     /\ events' = Append(events, << "recompile", i, 0 >>)
                ELSE UNCHANGED << mat, events >>
             /\ processed_materials' = Append(processed_materials, i)
             /\ i' = i + 1
             /\ Running("loop")
    /\ UNCHANGED << env, ch, tt, k, materials_found, shader_name, texture_path,
                    texture_asset, srgbOff, load, lastFind, log >>

\* lines 209-211
RecompileMaterial ==
    /\ pc = "recompile"
    /\ \E raises \in BOOLEAN :
        IF raises
        THEN /\ Raise("recompile_material")
             /\ UNCHANGED << mat, events, processed_materials, i >>
        ELSE /\ mat' = [ mat EXCEPT ![i].recompiled = @ + 1 ]
             /\ events' = Append(events, << "recompile", i, 0 >>)
             /\ processed_materials' = Append(processed_materials, i)
             /\ i' = i + 1
             /\ Running("loop")
    /\ UNCHANGED << env, ch, tt, k, materials_found, shader_name, texture_path,
                    texture_asset, srgbOff, load, lastFind, log >>

Next ==
    \/ GetSelectedAssets
    \/ SkipAsset
    \/ BeginMaterial
    \/ Finish
    \/ FindTexture
    \/ CreateExpression
    \/ SetSamplerType
    \/ LoadAsset
    \/ AltLookup
    \/ AltLoad
    \/ CheckLoaded
    \/ ConfigureTextureSettings
    \/ SetTexture
    \/ ConnectMaterialProperty
    \/ RecompileMaterial

Spec == Init /\ [][Next]_vars

TypeOK ==
    /\ pc \in { "start", "loop", "find", "create", "sampler", "load", "alt_lookup",
                "alt_load", "loaded", "configure", "set_texture", "connect",
                "recompile", "done" }
    /\ outcome \in { "running", "returned", "raised" }
    /\ (pc = "done") <=> (outcome # "running")

(***************************************************************************)
(* Properties                                                              *)
(***************************************************************************)
IsMaterial(m) == selected_assets.items[m].cls = "Material"

NoMaterialSelected ==
    selected_assets.isNone \/ \A m \in 1..Len(selected_assets.items) : ~IsMaterial(m)

NodesOf(m, c) == { n \in 1..Len(mat[m].nodes) : mat[m].nodes[n].ch = c }

\* C1: no exception propagates out of add_texture_to_selected_material: the
\* call never ends by raising, whatever the host calls do.
C1_NoExceptionPropagates == outcome # "raised"

\* C2: with an empty or None selection, or a selection without a Material, no
\* node is created, nothing is connected, nothing is recompiled, and the call
\* ends by logging an error and returning None.
C2_NoSelectionOrNoMaterial ==
    NoMaterialSelected =>
        /\ \A p \in 1..Len(events) : events[p][1] \notin { "create", "connect", "recompile" }
        /\ \A m \in DOMAIN mat : mat[m].nodes = <<>> /\ mat[m].recompiled = 0
        /\ pc = "done" =>
            /\ outcome = "returned"
            /\ result = PyNone
            /\ \E l \in log : l[1] = "error"

\* a selection that holds assets, none of them a Material, after the call ended
C2_Witness ==
    /\ pc = "done"
    /\ ~selected_assets.isNone
    /\ Len(selected_assets.items) > 0
    /\ NoMaterialSelected

\* C3: a channel for which no texture is found gets a warning, no node and no
\* connection, and the call still goes through the remaining channels of the
\* material and recompiles it.
C3_MissingTextureSkipsChannelOnly ==
    \A m \in DOMAIN mat : \A c \in 1..3 :
        mat[m].found[c] = None =>
            /\ << "warning", "not_found", m, c, 0 >> \in log
            /\ NodesOf(m, c) = {}
            /\ pc = "done" =>
                /\ \A d \in 1..3 : mat[m].found[d] # "pending"
                /\ mat[m].recompiled = 1

\* C4: load_texture_asset never raises; it calls load_asset at most twice, makes
\* exactly one fallback attempt (one registry lookup) when the first load_asset
\* raised and none otherwise, and returns the asset or None.
C4_LoadTextureAssetContained ==
    /\ load.calls <= 2
    /\ load.lookups <= 1
    /\ ~load.raised1 => load.lookups = 0 /\ load.calls <= 1
    /\ (load.raised1 /\ pc \in { "alt_load", "loaded" }) => load.lookups = 1
    /\ pc = "loaded" => load.result \in { None, texture_path }
    /\ outcome = "raised" => load = NoLoad /\ raisedBy # "load_asset"

\* load_texture_asset returns None after its first load_asset raised and the
\* fallback made the second load_asset call
C4_Witness ==
    /\ pc = "loaded"
    /\ load.raised1
    /\ load.calls = 2
    /\ load.result = None

\* the shader name the claim describes: the name without a trailing "_SG",
\* in whatever case the suffix is written
SuffixStripped(material_name) ==
    IF EndsWith(Upper(material_name), "_SG")
    THEN SubSeq(material_name, 1, Len(material_name) - 3)
    ELSE material_name

\* C5: the prefix textures are matched with is the material's name with a
\* trailing "_SG" stripped, and the unchanged name when it has no such suffix.
C5_ShaderNameIsNameWithoutSuffix ==
    lastFind.material # None => lastFind.shader = SuffixStripped(lastFind.material)

\* C6: per channel the texture is loaded before the node is created, the node
\* is created before it is connected, and the material is recompiled after
\* its last connection.
C6_FindLoadInsertConnectRecompile ==
    \A p \in 1..Len(events) :
        LET e == events[p]
        IN /\ e[1] = "create" =>
                \E q \in 1..(p - 1) : events[q] = << "load", e[2], e[3] >>
           /\ e[1] = "connect" =>
                \E q \in 1..(p - 1) : events[q] = << "create", e[2], e[3] >>
           /\ e[1] = "recompile" =>
                \A q \in 1..Len(events) :
                    (events[q][1] = "connect" /\ events[q][2] = e[2]) => q < p

\* C7: find_texture_by_type walks the content directory only when no registry
\* asset matches the prefix; with a registry match it returns the path of the
\* first match in registry order; it returns None only when neither matches.
C7_FilesystemOnlyAsFallback ==
    lastFind.type # None =>
        LET prefix  == Lower(lastFind.shader) \o "_sg_" \o Lower(lastFind.type)
            matches == { n \in 1..Len(registry) :
                            StartsWith(Lower(registry[n].asset_name), prefix) }
        IN /\ lastFind.walked <=> matches = {}
           /\ matches # {} =>
                LET first == CHOOSE n \in matches : \A o \in matches : n <= o
                IN lastFind.result =
                      registry[first].package_path \o "/" \o registry[first].asset_name
           /\ lastFind.result = None =>
                /\ matches = {}
                /\ Walk(content.sep, "", content.tree, prefix) = <<>>

\* the registry holds two matching assets, the content directory a matching
\* file, and the call returned the first registry asset without walking
C7_Witness ==
    /\ lastFind.type = "BaseColor"
    /\ ~lastFind.walked
    /\ Len(registry) = 2
    /\ \A n \in 1..2 : StartsWith(Lower(registry[n].asset_name), "w_sg_basecolor")
    /\ content = FsWindows
    /\ lastFind.result = registry[1].package_path \o "/" \o registry[1].asset_name

\* C8: every connection is one of the five of the wiring table; a finished ORM
\* channel has all three connections or none; G -> roughness and B -> metallic
\* exist only for a texture found as a packed occlusion-roughness-metallic
\* texture, not for one found under the name AmbientOcclusion.
C8_ChannelWiring ==
    \A m \in DOMAIN mat : \A n \in 1..Len(mat[m].nodes) :
        LET node == mat[m].nodes[n]
        IN /\ node.ch = 1 => node.conns \subseteq { << "RGB", "MP_BASE_COLOR" >> }
           /\ node.ch = 2 => node.conns \subseteq { << "RGB", "MP_NORMAL" >> }
           /\ node.ch = 3 =>
                /\ node.conns \subseteq { << "R", "MP_AMBIENT_OCCLUSION" >>,
                                          << "G", "MP_ROUGHNESS" >>,
                                          << "B", "MP_METALLIC" >> }
                /\ (outcome = "returned" \/ m < i) => Cardinality(node.conns) \in { 0, 3 }
                /\ node.conns \cap { << "G", "MP_ROUGHNESS" >>, << "B", "MP_METALLIC" >> } # {}
                       => mat[m].ftype[3] \in { "OcclusionRoughnessMetallic", "ORM" }

\* C9: when a material is recompiled, each node created in it has a texture
\* and a connected output.
C9_NoOrphanNodes ==
    \A m \in DOMAIN mat :
        (mat[m].recompiled > 0 \/ (pc = "recompile" /\ i = m)) =>
            \A n \in 1..Len(mat[m].nodes) :
                /\ mat[m].nodes[n].texture # None
                /\ mat[m].nodes[n].conns # {}

\* the indices of the Materials among the first n selected assets, in order
RECURSIVE MaterialsUpTo(_)
MaterialsUpTo(n) ==
    IF n = 0 THEN <<>>
    ELSE IF IsMaterial(n) THEN Append(MaterialsUpTo(n - 1), n)
    ELSE MaterialsUpTo(n - 1)

\* C10: a call that returns for a selection with a Material returns exactly the
\* Materials of the selection in selection order, each recompiled exactly
\* once; an asset that is not a Material is never created in, connected or
\* recompiled.
C10_ReturnsMaterialsInOrder ==
    /\ \A p \in 1..Len(events) : IsMaterial(events[p][2])
    /\ \A m \in DOMAIN mat : ~IsMaterial(m) => mat[m] = NewMat
    /\ (outcome = "returned" /\ ~NoMaterialSelected) =>
        /\ result = PyList(MaterialsUpTo(Len(selected_assets.items)))
        /\ \A m \in DOMAIN mat : IsMaterial(m) => mat[m].recompiled = 1

\* the call returned for a selection of a non-Material and a Material for
\* which no texture at all was found
C10_Witness ==
    /\ outcome = "returned"
    /\ Len(result.items) >= 1
    /\ \E m \in DOMAIN mat : ~IsMaterial(m)
    /\ \E m \in DOMAIN mat : IsMaterial(m) /\ \A c \in 1..3 : mat[m].found[c] = None

====
